---- MODULE Spec2Model ----
(***************************************************************************)
(* Conversation state of the Gemini chat client: the App component's       *)
(* message list, loading flag, error banner and stop flag, the             *)
(* GeminiService chat session, and the asynchronous handleSendMessage      *)
(* invocations that are still consuming a response stream.                 *)
(*                                                                         *)
(* Texts are sequences of tokens.  A token is one character, except that   *)
(* the literals the suggestion regexes look for are single tokens.         *)
(* Message ids are the integers Date.now() returns; toString is injective  *)
(* on integers, so ids are compared as integers.                           *)
(* Every handler runs to its next await as one step; React re-renders      *)
(* between events, so a handler's closure sees the current state.          *)
(***************************************************************************)
EXTENDS Integers, Sequences, FiniteSets, TLC

\* ---------------------------------------------------------------- bounds
MaxMsgs == 4
MaxStreams == 2
MaxFrags == 1
MaxClock == 1
MaxSends == 2

\* ------------------------------------------------------------- constants
USER == "user"
MODEL == "model"
NoSession == [exists |-> FALSE, history |-> <<>>]
NoError == "null"
ErrorBanner == "banner"
\* A handleSendMessage invocation that is not running.
Idle ==
  [active |-> FALSE, aiMessageId |-> 0, text |-> <<>>, accumulatedText |-> <<>>,
   chunks |-> 0, current |-> FALSE, slot |-> 0, stopReq |-> FALSE]
FailureMarker == <<"FAILED">>

OPEN == "<<<SUGGESTIONS"
COLON == ":"
LBRACKET == "["
RBRACKET == "]"
CLOSE == ">>>"
SPACE == " "
QSTR == "\"s\""
COMMA == ","
\* A string literal that is written over several tokens: QOPEN is its
\* opening quote with a first letter, QUOTE its closing quote.
QOPEN == "\"a"
QUOTE == "\""

\* ---------------------------------------------------------- text helpers
Min(S) == CHOOSE x \in S : \A y \in S : x <= y

Max(S) == CHOOSE x \in S : \A y \in S : x >= y

\* String.prototype.trim over token texts.
Trim(t) ==
  LET keep == {k \in 1..Len(t) : t[k] # SPACE}
  IN IF keep = {} THEN <<>> ELSE SubSeq(t, Min(keep), Max(keep))

\* Index of the first non-space token at or after p (Len(t)+1 when none).
SkipSpaces(t, p) ==
  LET rest == {k \in p..Len(t) : t[k] # SPACE}
  IN IF rest = {} THEN Len(t) + 1 ELSE Min(rest)

\* Does /<<<SUGGESTIONS:\s*(\[[\s\S]*?\])\s*>>>/ match starting at p, and
\* where: the lazy quantifier takes the first "]" that is followed by
\* optional spaces and the closing delimiter.
ClosersAt(t, p) ==
  IF p + 1 <= Len(t) /\ t[p] = OPEN /\ t[p + 1] = COLON
  THEN LET b == SkipSpaces(t, p + 2)
       IN IF b <= Len(t) /\ t[b] = LBRACKET
          THEN {e \in (b + 1)..Len(t) :
                  /\ t[e] = RBRACKET
                  /\ SkipSpaces(t, e + 1) <= Len(t)
                  /\ t[SkipSpaces(t, e + 1)] = CLOSE}
          ELSE {}
  ELSE {}

MatchStarts(t) == {p \in 1..Len(t) : ClosersAt(t, p) # {}}

\* The match of suggestionRegex: start, array span and end of match[0].
SuggestionMatch(t) ==
  LET p == Min(MatchStarts(t))
      b == SkipSpaces(t, p + 2)
      e == Min(ClosersAt(t, p))
  IN [start |-> p, arrFrom |-> b, arrTo |-> e, stop |-> SkipSpaces(t, e + 1)]

\* JSON.parse of the captured array: "[" elements "]" with optional
\* whitespace, elements being string literals separated by commas.
NoSpaces(t) == SelectSeq(t, LAMBDA c : c # SPACE)

JsonParses(arr) ==
  LET inner == NoSpaces(SubSeq(arr, 2, Len(arr) - 1))
  IN \/ inner = <<>>
     \/ /\ Len(inner) % 2 = 1
        /\ \A k \in 1..Len(inner) :
             IF k % 2 = 1 THEN inner[k] = QSTR ELSE inner[k] = COMMA

JsonValue(arr) ==
  LET inner == NoSpaces(SubSeq(arr, 2, Len(arr) - 1))
      strs == SelectSeq(inner, LAMBDA c : c = QSTR)
  IN [k \in 1..Len(strs) |-> <<"s">>]

ExtractShowingPartialMarker(m) ==
  IF m.role = USER THEN [displayContent |-> m.content, suggestions |-> <<>>]
  ELSE IF MatchStarts(m.content) # {}
  THEN LET mt == SuggestionMatch(m.content)
           arr == SubSeq(m.content, mt.arrFrom, mt.arrTo)
       IN IF JsonParses(arr)
          THEN [displayContent |->
                  Trim(SubSeq(m.content, 1, mt.start - 1)
                       \o SubSeq(m.content, mt.stop + 1, Len(m.content))),
                suggestions |-> JsonValue(arr)]
          ELSE [displayContent |-> m.content, suggestions |-> <<>>]
  ELSE [displayContent |-> m.content, suggestions |-> <<>>]

\* The useMemo of MessageBubble: display text and suggestion list.
Extract(m) ==
  IF m.role = USER THEN [displayContent |-> m.content, suggestions |-> <<>>]
  ELSE IF MatchStarts(m.content) # {}
  THEN LET mt == SuggestionMatch(m.content)
           arr == SubSeq(m.content, mt.arrFrom, mt.arrTo)
       IN IF JsonParses(arr)
          THEN [displayContent |->
                  Trim(SubSeq(m.content, 1, mt.start - 1)
                       \o SubSeq(m.content, mt.stop + 1, Len(m.content))),
                suggestions |-> JsonValue(arr)]
          ELSE [displayContent |-> m.content, suggestions |-> <<>>]
  ELSE IF m.isStreaming /\ \E k \in 1..Len(m.content) : m.content[k] = OPEN
  THEN [displayContent |->
          Trim(SubSeq(m.content, 1,
                      Min({k \in 1..Len(m.content) : m.content[k] = OPEN}) - 1)),
        suggestions |-> <<>>]
  ELSE [displayContent |-> m.content, suggestions |-> <<>>]


\* ----------------------------------------------------------- input sets
\* What the user can type into the input box, type into an editor, and the
\* two starter prompts of the empty state; what the network can deliver.
InputTexts == {<<"u">>, <<SPACE>>}

EditTexts == {<<"v">>, <<"u">>}

StarterTexts == {<<"f">>, <<"g">>}

MarkerBlock == <<OPEN, COLON, LBRACKET, QSTR, RBRACKET, CLOSE>>

Fragments == {<<"h">>, MarkerBlock}

\* ----------------------------------------------------------------- state
VARIABLES
  messages,        \* App: useState<Message[]>
  isLoading,       \* App: useState(false)
  error,           \* App: useState<string | null>
  stopGeneration,  \* App: useRef<boolean>(false)
  chatSession,     \* GeminiService.chatSession
  streams,         \* handleSendMessage invocations awaiting their stream
  now,             \* the clock Date.now() reads
  speaking,        \* window.speechSynthesis has an active utterance
  mounted,         \* the mount effect has run
  sends,           \* how many times handleSendMessage has been called
  lastOp           \* the handler that ran last, with its arguments

vars == <<messages, isLoading, error, stopGeneration, chatSession, streams,
          now, speaking, mounted, sends, lastOp>>

Op(name, idx, text) == [op |-> name, idx |-> idx, text |-> text]

StreamIds == 1..MaxStreams

InFlight == {k \in StreamIds : streams[k].active}

\* The page right after construction.
Fresh ==
  /\ messages = <<>>
  /\ chatSession = NoSession
  /\ mounted = FALSE

\* The page after one exchange has settled: "u" was sent at time 0, the
\* reply "h" arrived in one fragment and the stream ended.
Resumed ==
  /\ messages = <<[id |-> 0, role |-> USER, content |-> <<"u">>,
                   isStreaming |-> FALSE],
                  [id |-> 1, role |-> MODEL, content |-> <<"h">>,
                   isStreaming |-> FALSE]>>
  /\ chatSession = [exists |-> TRUE,
                    history |-> <<[role |-> USER, text |-> <<"u">>],
                                  [role |-> MODEL, text |-> <<"h">>]>>]
  /\ mounted = TRUE

Init ==
  /\ Fresh \/ Resumed
  /\ isLoading = FALSE
  /\ error = NoError
  /\ stopGeneration = FALSE
  /\ streams = [k \in StreamIds |-> Idle]
  /\ now = 0
  /\ speaking = FALSE
  /\ sends = 0
  /\ lastOp = Op("init", 0, <<>>)

\* ------------------------------------------------------- GeminiService
\* startChat(history): the session is replaced by a new Chat object seeded
\* with the given history; streams sent on the old object keep running but
\* no longer belong to the current session.
StartChat(history) == [exists |-> TRUE, history |-> history]

Orphaned(strs) ==
  [k \in StreamIds |->
     IF ~strs[k].active THEN Idle ELSE [strs[k] EXCEPT !.current = FALSE]]

\* messages.map(m => ({role: m.role, parts: [{text: m.content}]}))
HistoryForSdk(msgs) ==
  [k \in 1..Len(msgs) |-> [role |-> msgs[k].role, text |-> msgs[k].content]]

\* The Chat object appends the exchange to its history once the response
\* stream has been consumed to its end.
RecordHistory(session, s) ==
  [exists |-> TRUE, history |-> session.history \o
      <<[role |-> USER, text |-> s.text],
        [role |-> MODEL, text |-> s.accumulatedText]>>]

\* useEffect(() => { geminiService.startChat(); }, [])
Mount ==
  /\ ~mounted
  /\ mounted' = TRUE
  /\ chatSession' = StartChat(<<>>)
  /\ lastOp' = Op("idle", 0, <<>>)
  /\ UNCHANGED <<messages, isLoading, error, stopGeneration, streams, now,
                 speaking, sends>>

\* ------------------------------------------------------------ list helpers
\* Array.prototype.findIndex(m => m.id === id), 0 for -1.
FindIndex(msgs, id) ==
  LET hits == {k \in 1..Len(msgs) : msgs[k].id = id}
  IN IF hits = {} THEN 0 ELSE Min(hits)

\* Streams whose placeholder was cut away lose their slot.
Cut(strs, len) ==
  [k \in StreamIds |->
     IF ~strs[k].active THEN Idle
     ELSE IF strs[k].slot > len THEN [strs[k] EXCEPT !.slot = 0]
     ELSE strs[k]]


\* ----------------------------------------------------- handleSendMessage
\* The synchronous part of handleSendMessage(text, isRegenerate) applied to
\* the list base and the invocations strs: flags, the two clock reads (the
\* clock may advance by d between them), the user message, the placeholder,
\* and the call of geminiService.sendMessageStream on the current session.
FreeStreams(strs) == {k \in StreamIds : ~strs[k].active}

CanSend(base, isRegenerate) ==
  /\ sends < MaxSends
  /\ FreeStreams(streams) # {}
  /\ Len(base) + (IF isRegenerate THEN 1 ELSE 2) <= MaxMsgs

ClockSteps == {d \in {0, 1} : now + d <= MaxClock}

SentMessagesAlwaysWithUser(text, isRegenerate, base, d) ==
  LET userMessage ==
        [id |-> now + d, role |-> USER, content |-> text,
         isStreaming |-> FALSE]
      aiPlaceholderMessage ==
        [id |-> now + 1, role |-> MODEL, content |-> <<>>,
         isStreaming |-> TRUE]
  IN Append(base, userMessage) \o <<aiPlaceholderMessage>>

SentMessages(text, isRegenerate, base, d) ==
  LET aiMessageId == now + 1
      userMessageId == now + d
      userMessage ==
        [id |-> userMessageId, role |-> USER, content |-> text,
         isStreaming |-> FALSE]
      aiPlaceholderMessage ==
        [id |-> aiMessageId, role |-> MODEL, content |-> <<>>,
         isStreaming |-> TRUE]
  IN (IF isRegenerate THEN base ELSE Append(base, userMessage))
       \o <<aiPlaceholderMessage>>

SentStream(text, msgs) ==
  [active |-> TRUE, aiMessageId |-> now + 1, text |-> text,
   accumulatedText |-> <<>>, chunks |-> 0, current |-> TRUE,
   slot |-> Len(msgs), stopReq |-> FALSE]

HandleSendMessage(text, isRegenerate, base, strs, d) ==
  LET msgs == SentMessages(text, isRegenerate, base, d)
  IN /\ stopGeneration' = FALSE
     /\ error' = NoError
     /\ isLoading' = TRUE
     /\ now' = now + d
     /\ sends' = sends + 1
     /\ messages' = msgs
     /\ streams' = [strs EXCEPT ![Min(FreeStreams(strs))] = SentStream(text, msgs)]

\* handleStop
HandleStop ==
  /\ stopGeneration' = (IF isLoading THEN TRUE ELSE stopGeneration)
  /\ streams' = [k \in StreamIds |->
                   IF isLoading /\ streams[k].active
                   THEN [streams[k] EXCEPT !.stopReq = TRUE] ELSE streams[k]]
  /\ UNCHANGED <<messages, isLoading, error, chatSession, now, speaking, mounted, sends>>

\* ChatInput.handleSubmit: the send button and the Enter key.
ChatSubmit(input) ==
  /\ mounted
  /\ IF isLoading
     THEN /\ HandleStop
          /\ lastOp' = Op("stop", 0, <<>>)
     ELSE IF Trim(input) = <<>>
     THEN /\ lastOp' = Op("idle", 0, <<>>)
          /\ UNCHANGED <<messages, isLoading, error, stopGeneration, chatSession,
                         streams, now, speaking, mounted, sends>>
     ELSE /\ CanSend(messages, FALSE)
          /\ \E d \in ClockSteps :
               HandleSendMessage(input, FALSE, messages, streams, d)
          /\ lastOp' = Op("send", 0, input)
          /\ UNCHANGED <<chatSession, speaking, mounted>>

\* !isUser && suggestions.length > 0 && !isEditing: the chips are rendered
\* under the bubble at index i (a model bubble has no editor).
ChipsShown(i) ==
  /\ messages[i].role # USER
  /\ Len(Extract(messages[i]).suggestions) > 0

\* A suggestion chip under the model message at index i.
SuggestionClick(i, j) ==
  /\ mounted
  /\ i \in 1..Len(messages)
  /\ ChipsShown(i)
  /\ j \in 1..Len(Extract(messages[i]).suggestions)
  /\ CanSend(messages, FALSE)
  /\ \E d \in ClockSteps :
       HandleSendMessage(Extract(messages[i]).suggestions[j], FALSE,
                         messages, streams, d)
  /\ lastOp' = Op("chip", i, Extract(messages[i]).suggestions[j])
  /\ UNCHANGED <<chatSession, speaking, mounted>>

\* The starter buttons of the empty state.
StarterClick(text) ==
  /\ mounted
  /\ Len(messages) = 0
  /\ CanSend(messages, FALSE)
  /\ \E d \in ClockSteps : HandleSendMessage(text, FALSE, messages, streams, d)
  /\ lastOp' = Op("starter", 0, text)
  /\ UNCHANGED <<chatSession, speaking, mounted>>


\* ------------------------------------------------------ the stream loop
\* setMessages of the loop body: only the last message, and only when it
\* carries this invocation's aiMessageId, gets the accumulated text.
ApplyChunk(msgs, aiMessageId, accumulatedText) ==
  IF Len(msgs) > 0 /\ msgs[Len(msgs)].id = aiMessageId
  THEN [msgs EXCEPT ![Len(msgs)].content = accumulatedText]
  ELSE msgs

\* setMessages after the loop: the first message with the id stops streaming.
MarkDone(msgs, aiMessageId) ==
  IF FindIndex(msgs, aiMessageId) # 0
  THEN [msgs EXCEPT ![FindIndex(msgs, aiMessageId)].isStreaming = FALSE]
  ELSE msgs

MarkFailedWithoutMarker(msgs, aiMessageId) ==
  [k \in 1..Len(msgs) |->
     IF msgs[k].id = aiMessageId
     THEN [msgs[k] EXCEPT !.isStreaming = FALSE]
     ELSE msgs[k]]

\* setMessages of the catch block: every message with the id stops
\* streaming and an empty content becomes the failure marker.
MarkFailed(msgs, aiMessageId) ==
  [k \in 1..Len(msgs) |->
     IF msgs[k].id = aiMessageId
     THEN [msgs[k] EXCEPT !.isStreaming = FALSE,
                          !.content = IF msgs[k].content = <<>>
                                      THEN FailureMarker ELSE msgs[k].content]
     ELSE msgs[k]]

\* finally { setIsLoading(false); stopGeneration.current = false; }
Finally(k) ==
  /\ isLoading' = FALSE
  /\ stopGeneration' = FALSE
  /\ streams' = [streams EXCEPT ![k] = Idle]

\* The stream of invocation k yields the fragment f.  With the stop flag
\* set the loop breaks and the invocation runs to its end; otherwise the
\* fragment is accumulated and applied.
Fragment(k, f) ==
  /\ streams[k].active
  /\ streams[k].chunks < MaxFrags \/ stopGeneration
  /\ IF stopGeneration
     THEN /\ messages' = MarkDone(messages, streams[k].aiMessageId)
          /\ Finally(k)
          /\ lastOp' = Op("break", k, <<>>)
     ELSE /\ messages' = ApplyChunk(messages, streams[k].aiMessageId,
                                    streams[k].accumulatedText \o f)
          /\ streams' = [streams EXCEPT
                           ![k].accumulatedText = streams[k].accumulatedText \o f,
                           ![k].chunks = streams[k].chunks + 1]
          /\ lastOp' = Op("fragment", k, <<>>)
          /\ UNCHANGED <<isLoading, stopGeneration>>
  /\ UNCHANGED <<error, chatSession, now, speaking, mounted, sends>>

\* The stream of invocation k ends: the session it was sent on records the
\* exchange, the placeholder stops streaming, the flags are cleared.
Complete(k) ==
  /\ streams[k].active
  /\ chatSession' = IF streams[k].current
                    THEN RecordHistory(chatSession, streams[k])
                    ELSE chatSession
  /\ messages' = MarkDone(messages, streams[k].aiMessageId)
  /\ Finally(k)
  /\ lastOp' = Op("complete", k, <<>>)
  /\ UNCHANGED <<error, now, speaking, mounted, sends>>

FailAndRetry(k) ==
  /\ streams[k].active
  /\ sends < MaxSends
  /\ error' = ErrorBanner
  /\ messages' = MarkFailed(messages, streams[k].aiMessageId)
  /\ isLoading' = TRUE
  /\ stopGeneration' = FALSE
  /\ sends' = sends + 1
  /\ streams' = [streams EXCEPT ![k].accumulatedText = <<>>, ![k].chunks = 0]
  /\ lastOp' = Op("fail", k, <<>>)
  /\ UNCHANGED <<chatSession, now, speaking, mounted>>

\* The transport of invocation k fails: catch and finally.
Fail(k) ==
  /\ streams[k].active
  /\ error' = ErrorBanner
  /\ messages' = MarkFailed(messages, streams[k].aiMessageId)
  /\ Finally(k)
  /\ lastOp' = Op("fail", k, <<>>)
  /\ UNCHANGED <<chatSession, now, speaking, mounted, sends>>

\* ------------------------------------------------------- handleClearChat
ClearChatWithoutCancel(confirmed) ==
  /\ mounted
  /\ IF confirmed
     THEN /\ messages' = <<>>
          /\ chatSession' = StartChat(<<>>)
          /\ streams' = Cut(Orphaned(streams), 0)
          /\ error' = NoError
          /\ speaking' = speaking
          /\ lastOp' = Op("clear", 0, <<>>)
     ELSE /\ lastOp' = Op("idle", 0, <<>>)
          /\ UNCHANGED <<messages, chatSession, streams, error, speaking>>
  /\ UNCHANGED <<isLoading, stopGeneration, now, mounted, sends>>

ClearChat(confirmed) ==
  /\ mounted
  /\ IF confirmed
     THEN /\ messages' = <<>>
          /\ chatSession' = StartChat(<<>>)
          /\ streams' = Cut(Orphaned(streams), 0)
          /\ error' = NoError
          /\ speaking' = FALSE
          /\ lastOp' = Op("clear", 0, <<>>)
     ELSE /\ lastOp' = Op("idle", 0, <<>>)
          /\ UNCHANGED <<messages, chatSession, streams, error, speaking>>
  /\ UNCHANGED <<isLoading, stopGeneration, now, mounted, sends>>


\* ------------------------------------------------------ handleRegenerate
\* if (messages.length === 0 || isLoading) return;
RegenerateBlockedIgnoringLoading == Len(messages) = 0

RegenerateBlocked == Len(messages) = 0 \/ isLoading

\* lastUserMsgIndex as a 1-based index, 0 for -1.
LastUserMsgIndex ==
  IF /\ Len(messages) >= 2
     /\ messages[Len(messages)].role = MODEL
     /\ messages[Len(messages) - 1].role = USER
  THEN Len(messages) - 1
  ELSE 0

NewHistoryMessagesOffByOne(idx) == SubSeq(messages, 1, idx)

\* messages.slice(0, lastUserMsgIndex)
NewHistoryMessages(idx) == SubSeq(messages, 1, idx - 1)

HandleRegenerate ==
  IF RegenerateBlocked \/ LastUserMsgIndex = 0
  THEN /\ lastOp' = Op("regenerate_noop", 0, <<>>)
       /\ UNCHANGED <<messages, isLoading, error, stopGeneration, chatSession,
                      streams, now, speaking, mounted, sends>>
  ELSE LET idx == LastUserMsgIndex
           kept == SubSeq(messages, 1, Len(messages) - 1)
       IN /\ CanSend(kept, TRUE)
          /\ chatSession' = StartChat(HistoryForSdk(NewHistoryMessages(idx)))
          /\ \E d \in ClockSteps :
               HandleSendMessage(messages[idx].content, TRUE, kept,
                                 Cut(Orphaned(streams), Len(kept)), d)
          /\ lastOp' = Op("regenerate", idx, messages[idx].content)
          /\ UNCHANGED <<speaking, mounted>>

\* The toolbar of a bubble is rendered when the message is not streaming
\* (a bubble in edit mode is the one being saved, see EditSave).
ToolbarShown(i) == ~messages[i].isStreaming

\* The regenerate button: a model bubble that is the last one.
RegenerateOfferedWhileStreaming(i) ==
  /\ messages[i].role # USER
  /\ i = Len(messages)

RegenerateOffered(i) ==
  /\ i \in 1..Len(messages)
  /\ ToolbarShown(i)
  /\ messages[i].role # USER
  /\ i = Len(messages)

RegenerateClick ==
  /\ mounted
  /\ \E i \in 1..Len(messages) : RegenerateOffered(i)
  /\ HandleRegenerate

\* ------------------------------------------------------------ handleEdit
HandleEditUnguarded(msgId, newContent, bubble) ==
  LET index == FindIndex(messages, msgId)
      previousMessages == SubSeq(messages, 1, index - 1)
  IN /\ CanSend(previousMessages, FALSE)
     /\ chatSession' = StartChat(HistoryForSdk(previousMessages))
     /\ \E d \in ClockSteps :
          HandleSendMessage(newContent, FALSE, previousMessages,
                            Cut(Orphaned(streams), index - 1), d)
     /\ lastOp' = Op("edit", bubble, newContent)
     /\ UNCHANGED <<speaking, mounted>>

HandleEdit(msgId, newContent, bubble) ==
  LET index == FindIndex(messages, msgId)
  IN IF index = 0 \/ messages[index].role # USER
     THEN /\ lastOp' = Op("edit_noop", bubble, newContent)
          /\ UNCHANGED <<messages, isLoading, error, stopGeneration,
                         chatSession, streams, now, speaking, mounted, sends>>
     ELSE LET previousMessages == SubSeq(messages, 1, index - 1)
          IN /\ CanSend(previousMessages, FALSE)
             /\ chatSession' = StartChat(HistoryForSdk(previousMessages))
             /\ \E d \in ClockSteps :
                  HandleSendMessage(newContent, FALSE, previousMessages,
                                    Cut(Orphaned(streams), index - 1), d)
             /\ lastOp' = Op("edit", bubble, newContent)
             /\ UNCHANGED <<speaking, mounted>>

\* The pencil button of the user bubble at index i, the editor, and
\* handleSaveEdit with the text newContent in the editor.
EditSave(i, newContent) ==
  /\ mounted
  /\ i \in 1..Len(messages)
  /\ ToolbarShown(i)
  /\ messages[i].role = USER
  /\ IF Trim(newContent) # messages[i].content
     THEN HandleEdit(messages[i].id, newContent, i)
     ELSE /\ lastOp' = Op("idle", 0, <<>>)
          /\ UNCHANGED <<messages, isLoading, error, stopGeneration,
                         chatSession, streams, now, speaking, mounted, sends>>

\* ------------------------------------------------------- speech and clock
\* handleSpeak of the bubble at index i; bubbleSpeaking is its isSpeaking.
HandleSpeak(i, bubbleSpeaking) ==
  /\ mounted
  /\ i \in 1..Len(messages)
  /\ ToolbarShown(i)
  /\ bubbleSpeaking => speaking
  /\ speaking' = ~bubbleSpeaking
  /\ lastOp' = Op("idle", 0, <<>>)
  /\ UNCHANGED <<messages, isLoading, error, stopGeneration, chatSession,
                 streams, now, mounted, sends>>

\* utterance.onend
UtteranceEnd ==
  /\ speaking
  /\ speaking' = FALSE
  /\ lastOp' = Op("idle", 0, <<>>)
  /\ UNCHANGED <<messages, isLoading, error, stopGeneration, chatSession,
                 streams, now, mounted, sends>>

\* A millisecond passes.  Date.now() is the wall clock: nothing makes it
\* advance between two reads, within one handler or between two events.
Tick ==
  /\ now < MaxClock
  /\ now' = now + 1
  /\ lastOp' = Op("idle", 0, <<>>)
  /\ UNCHANGED <<messages, isLoading, error, stopGeneration, chatSession,
                 streams, speaking, mounted, sends>>

\* --------------------------------------------------------- specification
Next ==
  \/ Mount
  \/ \E input \in InputTexts : ChatSubmit(input)
  \/ \E i \in 1..MaxMsgs, j \in 1..2 : SuggestionClick(i, j)
  \/ \E text \in StarterTexts : StarterClick(text)
  \/ \E k \in StreamIds, f \in Fragments : Fragment(k, f)
  \/ \E k \in StreamIds : Complete(k)
  \/ \E k \in StreamIds : Fail(k)
  \/ \E confirmed \in BOOLEAN : ClearChat(confirmed)
  \/ RegenerateClick
  \/ \E i \in 1..MaxMsgs, newContent \in EditTexts : EditSave(i, newContent)
  \/ \E i \in 1..MaxMsgs, b \in BOOLEAN : HandleSpeak(i, b)
  \/ UtteranceEnd
  \/ Tick

Spec == Init /\ [][Next]_vars


\* The handlers App hands to its children as callbacks, called directly in
\* any state of the component, whatever the toolbar currently offers.
OnRegenerate ==
  /\ mounted
  /\ HandleRegenerate

OnEdit(msgId, newContent) ==
  /\ mounted
  /\ HandleEdit(msgId, newContent, 0)

NextDirect ==
  \/ Next
  \/ OnRegenerate
  \/ \E msgId \in 0..(MaxClock + 1), newContent \in EditTexts :
       OnEdit(msgId, newContent)

SpecDirect == Init /\ [][NextDirect]_vars

\* ------------------------------------------------- rendering one bubble
\* The texts a model bubble is rendered with: some prose, then nothing, an
\* opening token that is not closed yet, or a closed marker block whose
\* array is a JSON array or not, then possibly more prose.
Spaces == {<<>>, <<SPACE>>}

Prefixes == {<<>>, <<"h">>, <<"h", SPACE>>, <<SPACE, "h">>}

Suffixes == {<<>>, <<"h">>}

\* JSON arrays of strings with the value JSON.parse gives them; the last
\* one is ["a]>>>"], a single string that contains "]" and ">>>".
WellFormedArrays ==
  {[tokens |-> <<LBRACKET, RBRACKET>>, value |-> <<>>],
   [tokens |-> <<LBRACKET, QSTR, RBRACKET>>, value |-> << <<"s">> >>],
   [tokens |-> <<LBRACKET, QSTR, COMMA, QSTR, RBRACKET>>,
    value |-> << <<"s">>, <<"s">> >>],
   [tokens |-> <<LBRACKET, QOPEN, RBRACKET, CLOSE, QUOTE, RBRACKET>>,
    value |-> << <<"a", RBRACKET, CLOSE>> >>]}

\* Bracketed texts JSON.parse rejects: [h] and ["s",].
MalformedArrays ==
  {<<LBRACKET, "h", RBRACKET>>, <<LBRACKET, QSTR, COMMA, RBRACKET>>}

Block(arr, s1, s2) == <<OPEN, COLON>> \o s1 \o arr \o s2 \o <<CLOSE>>

Unclosed ==
  {<<OPEN>>, <<OPEN, COLON>>, <<OPEN, COLON, LBRACKET, QSTR>>,
   <<OPEN, COLON, LBRACKET, QSTR, RBRACKET>>}

MarkerParts ==
  {<<>>} \cup Unclosed
    \cup {Block(a, s1, s2) :
            a \in {w.tokens : w \in WellFormedArrays} \cup MalformedArrays,
            s1 \in Spaces, s2 \in Spaces}

BubbleTexts ==
  {p \o m \o s : p \in Prefixes, m \in MarkerParts, s \in Suffixes}

\* The page shows the exchange [user "u", model reply]; the reply is either
\* settled or the placeholder of the one stream in flight, whose text so
\* far is the placeholder's content.
InitRender ==
  \E content \in BubbleTexts, streaming \in BOOLEAN :
    /\ messages = <<[id |-> 0, role |-> USER, content |-> <<"u">>,
                     isStreaming |-> FALSE],
                    [id |-> 1, role |-> MODEL, content |-> content,
                     isStreaming |-> streaming]>>
    /\ isLoading = streaming
    /\ error = NoError
    /\ stopGeneration = FALSE
    /\ chatSession = IF streaming THEN StartChat(<<>>)
                     ELSE StartChat(<<[role |-> USER, text |-> <<"u">>],
                                      [role |-> MODEL, text |-> content]>>)
    /\ streams = [k \in StreamIds |->
                   IF streaming /\ k = 1
                   THEN [active |-> TRUE, aiMessageId |-> 1, text |-> <<"u">>,
                         accumulatedText |-> content,
                         chunks |-> IF content = <<>> THEN 0 ELSE 1,
                         current |-> TRUE, slot |-> 2, stopReq |-> FALSE]
                   ELSE Idle]
    /\ now = 1
    /\ speaking = FALSE
    /\ mounted = TRUE
    /\ sends = 1
    /\ lastOp = Op("init", 0, <<>>)

\* What the useMemo of the bubble at index i returned.
RenderOp(i, extracted) ==
  [op |-> "render", idx |-> i, text |-> extracted.displayContent,
   suggestions |-> extracted.suggestions]

\* React renders the bubble at index i: its useMemo runs on the message.
RenderBubble(i) ==
  /\ i \in 1..Len(messages)
  /\ lastOp' = RenderOp(i, Extract(messages[i]))
  /\ UNCHANGED <<messages, isLoading, error, stopGeneration, chatSession,
                 streams, now, speaking, mounted, sends>>

NextRender == \E i \in 1..MaxMsgs : RenderBubble(i)

SpecRender == InitRender /\ [][NextRender]_vars

\* ================================================================ claims
Streaming == {i \in 1..Len(messages) : messages[i].isStreaming}

SendOps == {"send", "chip", "starter"}

\* C1: at most one message of the conversation list has isStreaming = TRUE,
\* in every reachable state.
C1_AtMostOneStreaming == Cardinality(Streaming) <= 1

\* C2: a send from the input box, a suggestion chip or a starter button is
\* started only in a state where isLoading is FALSE.
C2_NoSendWhileLoading ==
  [][lastOp'.op \in SendOps => ~isLoading]_vars

\* C3: handleEdit rebuilds the session, truncates the list and starts a
\* stream only in a state where isLoading is FALSE.
C3_NoEditWhileLoading ==
  [][lastOp'.op = "edit" => ~isLoading]_vars

\* C4: called in a state where isLoading is TRUE, handleRegenerate leaves
\* the adapter session, the message list and the set of running streams as
\* they are; a regenerate that does proceed starts from isLoading = FALSE.
C4_NoRegenerateWhileLoading ==
  [][/\ lastOp'.op = "regenerate" => ~isLoading
     /\ (lastOp'.op = "regenerate_noop" /\ isLoading)
          => UNCHANGED <<messages, chatSession, streams, isLoading>>]_vars

\* C4 witness: regenerate was called while a stream kept isLoading TRUE, on
\* a list whose last two messages are a user message and a model message.
C4_Witness ==
  /\ lastOp.op = "regenerate_noop"
  /\ isLoading
  /\ LastUserMsgIndex # 0


\* The UI list without the exchange in flight (the user message and the
\* placeholder of the stream that has not settled).
WithoutInFlight ==
  IF InFlight # {} /\ Len(messages) >= 2
  THEN SubSeq(messages, 1, Len(messages) - 2)
  ELSE messages

\* C5: the session history, as (role, text) pairs, equals the UI list with
\* the exchange in flight left out; with no stream in flight it equals the
\* whole UI list.
C5_SessionMirror ==
  chatSession.exists => chatSession.history = HistoryForSdk(WithoutInFlight)

\* The streams a step has started.
Started == {k \in StreamIds : ~streams[k].active /\ streams'[k].active}

\* C6: a regenerate that proceeds, on a list ending in the user message U at
\* index i and a model message M, rebuilds the session with the messages
\* 0..i-1, removes M, keeps U and everything before it, appends one
\* streaming placeholder, and sends U's content on the new session.
C6_Regenerate ==
  [][lastOp'.op = "regenerate" =>
       LET i == Len(messages) - 1
       IN /\ ~isLoading
          /\ i >= 1
          /\ messages[i].role = USER
          /\ messages[i + 1].role = MODEL
          /\ chatSession'.exists
          /\ chatSession'.history = HistoryForSdk(SubSeq(messages, 1, i - 1))
          /\ Len(messages') = i + 1
          /\ SubSeq(messages', 1, i) = SubSeq(messages, 1, i)
          /\ messages'[i + 1].role = MODEL
          /\ messages'[i + 1].isStreaming
          /\ messages'[i + 1].content = <<>>
          /\ Cardinality(Started) = 1
          /\ \A k \in Started : /\ streams'[k].text = messages[i].content
                                /\ streams'[k].current
                                /\ streams'[k].slot = i + 1
          /\ \A k \in StreamIds \ Started : ~streams'[k].current]_vars

\* C6 witness: regenerate has just run on [U1, M1, U2, M2]: the list is
\* [U1, M1, U2, M2'] and the session holds [U1, M1].
C6_Witness ==
  /\ lastOp.op = "regenerate"
  /\ Len(messages) = 4
  /\ messages[4].isStreaming
  /\ chatSession.history = HistoryForSdk(SubSeq(messages, 1, 2))
  /\ lastOp.text = messages[3].content

\* C7: an edit of the user message at index i with the text T rebuilds the
\* session with the messages 0..i-1, truncates the list to that prefix,
\* appends a user message with content T and a streaming placeholder, and
\* sends T on the new session.
C7_Edit ==
  [][lastOp'.op \in {"edit", "edit_noop"} =>
       LET i == lastOp'.idx
           T == lastOp'.text
       IN /\ chatSession'.exists
          /\ chatSession'.history = HistoryForSdk(SubSeq(messages, 1, i - 1))
          /\ Len(messages') = i + 1
          /\ SubSeq(messages', 1, i - 1) = SubSeq(messages, 1, i - 1)
          /\ messages'[i].role = USER
          /\ messages'[i].content = T
          /\ messages'[i + 1].role = MODEL
          /\ messages'[i + 1].isStreaming
          /\ messages'[i + 1].content = <<>>
          /\ Cardinality(Started) = 1
          /\ \A k \in Started : streams'[k].text = T /\ streams'[k].current]_vars

Survives(k) == streams'[k].active => streams'[k].slot = streams[k].slot

\* C8: once a stop has been requested for a stream whose placeholder shows
\* the fragments applied so far, no later step changes that content, and
\* when the stream settles the placeholder has isStreaming = FALSE.
C8_StopFreezes ==
  [][\A k \in StreamIds :
       (/\ streams[k].active
        /\ streams[k].stopReq
        /\ streams[k].slot # 0
        /\ messages[streams[k].slot].content # <<>>
        /\ Survives(k))
       => /\ messages'[streams[k].slot].content
               = messages[streams[k].slot].content
          /\ ~streams'[k].active
               => ~messages'[streams[k].slot].isStreaming]_vars

\* C10: when the transport of a stream fails, the error banner is set, the
\* loading flag is cleared, and the stream's placeholder stops streaming
\* with the text accumulated before the failure, or with the failure marker
\* when no text had accumulated.
C10_TransportFailure ==
  [][lastOp'.op = "fail" =>
       LET s == streams[lastOp'.idx]
       IN /\ error' = ErrorBanner
          /\ ~isLoading'
          /\ s.slot # 0 =>
               /\ ~messages'[s.slot].isStreaming
               /\ messages'[s.slot].content =
                    IF s.accumulatedText # <<>> THEN s.accumulatedText
                    ELSE FailureMarker]_vars


\* C11: a message has isStreaming = TRUE only while it is the placeholder of
\* a stream that has not settled; once the stream has completed, failed or
\* been stopped its placeholder no longer streams.
C11_StreamingOnlyInFlight ==
  \A i \in Streaming : \E k \in InFlight : streams[k].slot = i

IsPrefix(a, b) == Len(a) <= Len(b) /\ SubSeq(b, 1, Len(a)) = a

\* C12: the content of a stream's placeholder only grows by the fragments
\* of that stream, in arrival order: a fragment that is applied leaves the
\* placeholder with the concatenation of the fragments received so far, and
\* the content before any step is a prefix of the content after it.
C12_FragmentsInOrder ==
  [][\A k \in StreamIds :
       (/\ streams[k].active
        /\ streams[k].slot # 0
        /\ ~streams[k].stopReq
        /\ streams'[k].active
        /\ streams'[k].slot = streams[k].slot)
       => /\ IsPrefix(messages[streams[k].slot].content,
                      messages'[streams[k].slot].content)
          /\ (lastOp'.op = "fragment" /\ lastOp'.idx = k
                /\ messages' # messages)
               => messages'[streams[k].slot].content
                    = streams'[k].accumulatedText]_vars

\* C13: no two messages of the conversation list have the same id.
C13_UniqueIds ==
  \A a, b \in 1..Len(messages) : messages[a].id = messages[b].id => a = b

\* The steps in which the user asks for a reply.
IntentOps == {"send", "chip", "starter", "edit", "regenerate"}

\* C14: every send, edit or regenerate that proceeds makes exactly one
\* sendMessageStream call, and no other step (a fragment, the end of a
\* stream, a transport failure, a stop, a clear) makes one.
C14_NoRetry ==
  [][IF lastOp'.op \in IntentOps
     THEN sends' = sends + 1 /\ Cardinality(Started) = 1
     ELSE sends' = sends /\ Started = {}]_vars

\* C14 witness: the only stream started so far has failed and nothing has
\* been sent again.
C14_Witness ==
  /\ lastOp.op = "fail"
  /\ sends = 1
  /\ InFlight = {}
  /\ error = ErrorBanner


\* C18: suggestion chips are shown only under a model message that is not
\* streaming, and a chip is clicked only under such a message.
C18_ChipsOnlyWhenCompleted ==
  \A i \in 1..Len(messages) :
    ChipsShown(i) => messages[i].role = MODEL /\ ~messages[i].isStreaming

\* C19: the regenerate button is shown for a message only if it is the last
\* of the list, a model message and not streaming, so the button is only
\* ever pressed when the list ends with a model message that has settled.
C19_RegenerateOnlyLastModel ==
  [][/\ \A i \in 1..Len(messages) :
          RegenerateOffered(i)
            => /\ i = Len(messages)
               /\ messages[i].role = MODEL
               /\ ~messages[i].isStreaming
     /\ lastOp'.op \in {"regenerate", "regenerate_noop"}
          => /\ Len(messages) > 0
             /\ messages[Len(messages)].role = MODEL
             /\ ~messages[Len(messages)].isStreaming]_vars

\* C19 witness: the button was pressed under the last message of a list of
\* four and the reply to its prompt is being generated again.
C19_Witness ==
  /\ lastOp.op = "regenerate"
  /\ lastOp.idx = 3
  /\ Len(messages) = 4
  /\ messages[4].isStreaming

\* C20: isLoading is TRUE as long as some stream that was started has not
\* settled; the settlement of one stream does not clear it while another
\* stream is in flight.
C20_LoadingCoversStreams ==
  InFlight # {} => isLoading


\* The model bubble whose extraction result is in lastOp.
RenderedModel ==
  /\ lastOp.op = "render"
  /\ messages[lastOp.idx].role = MODEL

HasToken(t, tok) == \E k \in 1..Len(t) : t[k] = tok

\* C15: for a model text that is some prose without the opening token
\* followed by a well-formed marker block, extraction returns the prose
\* (trimmed, as the bubble trims what is left) and the parsed array as the
\* suggestion list; for a text without the opening token it returns the
\* text unchanged and no suggestions.
C15_Extraction ==
  RenderedModel =>
    LET t == messages[lastOp.idx].content
    IN /\ \A p \in Prefixes, w \in WellFormedArrays,
            s1 \in Spaces, s2 \in Spaces :
            t = p \o Block(w.tokens, s1, s2)
              => /\ lastOp.text = Trim(p)
                 /\ lastOp.suggestions = w.value
       /\ ~HasToken(t, OPEN)
            => /\ lastOp.text = t
               /\ lastOp.suggestions = <<>>


\* The text before the first opening token of t.
BeforeOpen(t) ==
  SubSeq(t, 1, Min({k \in 1..Len(t) : t[k] = OPEN}) - 1)

\* A streaming model bubble was rendered whose text has the opening token
\* and no closing delimiter yet.
PartialMarkerRendered ==
  /\ RenderedModel
  /\ messages[lastOp.idx].isStreaming
  /\ HasToken(messages[lastOp.idx].content, OPEN)
  /\ ~HasToken(messages[lastOp.idx].content, CLOSE)

\* C16 as stated: while a model message streams and its text has the
\* opening token but no closing delimiter, the display text is the text cut
\* at the start of the opening token.
C16_PartialHidden ==
  PartialMarkerRendered
    => lastOp.text = BeforeOpen(messages[lastOp.idx].content)

\* C16 amended: the display text is the text cut at the start of the
\* opening token and then trimmed of leading and trailing whitespace; no
\* part of the marker is shown.
C16_PartialHiddenTrimmed ==
  PartialMarkerRendered
    => /\ lastOp.text = Trim(BeforeOpen(messages[lastOp.idx].content))
       /\ ~HasToken(lastOp.text, OPEN)

\* C16 witness: the text "h", a space and an unclosed marker is shown as
\* "h" while the message streams.
C16_Witness ==
  /\ PartialMarkerRendered
  /\ BeforeOpen(messages[lastOp.idx].content) = <<"h", SPACE>>
  /\ Len(messages[lastOp.idx].content) > 3
  /\ lastOp.text = <<"h">>

\* C17: when the text of a model message has a closed marker block whose
\* array does not parse, there are no suggestions; the raw text is shown
\* unchanged if the message is not streaming, and the marker is hidden from
\* the display text if it is streaming.
C17_MalformedBlock ==
  RenderedModel =>
    LET t == messages[lastOp.idx].content
    IN \A p \in Prefixes, a \in MalformedArrays, s1 \in Spaces,
          s2 \in Spaces, s \in Suffixes :
         t = p \o Block(a, s1, s2) \o s
           => /\ lastOp.suggestions = <<>>
              /\ ~messages[lastOp.idx].isStreaming => lastOp.text = t
              /\ messages[lastOp.idx].isStreaming => ~HasToken(lastOp.text, OPEN)


\* The steps of a running stream: a fragment, the break after a stop, the
\* end of the stream, a transport failure.
StreamOps == {"fragment", "break", "complete", "fail"}

\* C21: a step of a stream changes no message but that stream's own
\* placeholder and never changes the length of the list; when the
\* placeholder is no longer in the list (a clear or an edit cut it away) the
\* step leaves the list as it is.
C21_OwnPlaceholderOnly ==
  [][lastOp'.op \in StreamOps
       => /\ Len(messages') = Len(messages)
          /\ \A i \in 1..Len(messages) :
               i # streams[lastOp'.idx].slot => messages'[i] = messages[i]]_vars


\* C22: the conversation list is empty or starts with a user message and
\* alternates user, model, user, model, ... in every reachable state.
C22_RolesAlternate ==
  \A i \in 1..Len(messages) :
    messages[i].role = IF i % 2 = 1 THEN USER ELSE MODEL

\* C22 witness: the reply of a list of two was regenerated; the list is the
\* user message followed by the new streaming placeholder.
C22_Witness ==
  /\ lastOp.op = "regenerate"
  /\ Len(messages) = 2
  /\ messages[1].role = USER
  /\ messages[2].role = MODEL
  /\ messages[2].isStreaming


\* C23 as stated: a model message that is not streaming has a content that
\* is not empty.
C23_SettledNonEmpty ==
  \A i \in 1..Len(messages) :
    messages[i].role = MODEL /\ ~messages[i].isStreaming
      => messages[i].content # <<>>

\* C23 amended: a transport failure leaves the stream's placeholder settled
\* with a content that is not empty (the failure marker when no text had
\* accumulated); the end of a stream and the break after a stop leave the
\* content of the placeholder as it was, empty when no fragment was applied.
C23_NonEmptyAfterFailure ==
  [][\A k \in StreamIds :
       (lastOp'.idx = k /\ streams[k].slot # 0)
         => /\ lastOp'.op = "fail"
                 => /\ ~messages'[streams[k].slot].isStreaming
                    /\ messages'[streams[k].slot].content # <<>>
            /\ lastOp'.op \in {"complete", "break"}
                 => messages'[streams[k].slot].content
                      = messages[streams[k].slot].content]_vars

\* C23 witness: a stream failed before any fragment and its placeholder,
\* the last message, shows the failure marker.
C23_Witness ==
  /\ lastOp.op = "fail"
  /\ Len(messages) > 0
  /\ messages[Len(messages)].role = MODEL
  /\ ~messages[Len(messages)].isStreaming
  /\ messages[Len(messages)].content = FailureMarker


\* C24: a regenerate or an edit that its guards turn away changes nothing:
\* not the message list, the session, the loading flag, nor the running
\* streams.  A regenerate proceeds only from a list that is not empty and
\* ends with a user message followed by a model message, with isLoading
\* FALSE; an edit proceeds only for a user message of the list, and cuts
\* the list just before it.
C24_GuardedNoOps ==
  [][/\ lastOp'.op \in {"regenerate_noop", "edit_noop"}
          => UNCHANGED <<messages, chatSession, isLoading, error,
                         stopGeneration, streams, sends>>
     /\ lastOp'.op = "regenerate"
          => /\ Len(messages) >= 2
             /\ ~isLoading
             /\ messages[Len(messages)].role = MODEL
             /\ messages[Len(messages) - 1].role = USER
     /\ lastOp'.op = "edit"
          => \E index \in 1..Len(messages) :
               /\ messages[index].role = USER
               /\ Len(messages') = index + 1
               /\ SubSeq(messages', 1, index - 1)
                    = SubSeq(messages, 1, index - 1)]_vars

\* C24 witness: handleEdit was called, while a stream is in flight, with an
\* id that is not the id of a user message, and returned at its guards.
C24_Witness ==
  /\ lastOp.op = "edit_noop"
  /\ lastOp.idx = 0
  /\ isLoading
  /\ Len(messages) = 2
  /\ messages[2].isStreaming

====
